---------------------------- MODULE Spec2Model ----------------------------
(***************************************************************************)
(* Model of compare_json_files.py: the canonicalizer (format_json), the    *)
(* indexer (extract_centers_by_branch_code), the differ (compare_centers)  *)
(* and the run of main() over the files it reads and writes.               *)
(*                                                                         *)
(* Python values loaded by json.load are records tagged by their type k:   *)
(*   k = "str"  s = the characters of the string, a sequence of            *)
(*              one-character strings                                      *)
(*   k = "num"  n = an integer (floats are not modelled)                   *)
(*   k = "bool" b = TRUE or FALSE                                          *)
(*   k = "null"                                                            *)
(*   k = "list" elems = the sequence of the elements                       *)
(*   k = "dict" items = the sequence of the items [key, val] in insertion  *)
(*              order, keys pairwise different                             *)
(* A Python str is the sequence of its characters, so that str(), repr(),  *)
(* json.dumps() and the comparison of strings are computed character by    *)
(* character.                                                              *)
(***************************************************************************)
EXTENDS Integers, Sequences, FiniteSets, Bags, TLC

VARIABLES
    \* canonicalizer under test
    data, formatted, reformatted, permuted, formatted_permuted,
    \* indexer under test
    json_data, centers_dict,
    \* differ under test
    old_centers, new_centers, comparison_results,
    \* the files and the outcome of main()
    old_file, new_file, backup_dir, old_backup, formatted_source_file,
    comparison_file, output_file, error_file, clock, exit_status, last_run

vars == << data, formatted, reformatted, permuted, formatted_permuted,
           json_data, centers_dict,
           old_centers, new_centers, comparison_results,
           old_file, new_file, backup_dir, old_backup, formatted_source_file,
           comparison_file, output_file, error_file, clock, exit_status,
           last_run >>

-----------------------------------------------------------------------------
(* Python values *)

Str(s) == [k |-> "str", s |-> s]
Num(n) == [k |-> "num", n |-> n]
Bool(b) == [k |-> "bool", b |-> b]
Null == [k |-> "null"]
List(items) == [k |-> "list", elems |-> items]
Dict(items) == [k |-> "dict", items |-> items]
Item(key, val) == [key |-> key, val |-> val]

\* a value that has not been computed
NotRun == [k |-> "not_run"]
\* an exception that left the function
Raised(name) == [k |-> "raise", exc |-> name]

IsStr(x) == x.k = "str"
IsList(x) == x.k = "list"
IsDict(x) == x.k = "dict"
\* bool is a subclass of int: True and False take part in numeric comparison
IsNumber(x) == x.k \in {"num", "bool"}
NumVal(x) == IF x.k = "bool" THEN (IF x.b THEN 1 ELSE 0) ELSE x.n

\* dict operations
DictKeys(d) == {d.items[i].key : i \in 1..Len(d.items)}
DictHas(d, key) == \E i \in 1..Len(d.items) : d.items[i].key = key
DictGet(d, key) == d.items[CHOOSE i \in 1..Len(d.items) : d.items[i].key = key].val
\* d.get(key, default)
DictGetOr(d, key, default) == IF DictHas(d, key) THEN DictGet(d, key) ELSE default

\* Python's == on loaded JSON values
RECURSIVE PyEq(_, _)
PyEq(a, b) ==
    IF IsNumber(a) /\ IsNumber(b) THEN NumVal(a) = NumVal(b)
    ELSE IF a.k # b.k THEN FALSE
    ELSE IF a.k = "null" THEN TRUE
    ELSE IF a.k = "str" THEN a.s = b.s
    ELSE IF a.k = "list" THEN
        /\ Len(a.elems) = Len(b.elems)
        /\ \A i \in 1..Len(a.elems) : PyEq(a.elems[i], b.elems[i])
    ELSE \* dict: same keys, equal values, whatever the insertion order
        /\ DictKeys(a) = DictKeys(b)
        /\ \A key \in DictKeys(a) : PyEq(DictGet(a, key), DictGet(b, key))

-----------------------------------------------------------------------------
(* Strings: code points, comparison, str(), repr() and json.dumps() *)

DQuote == "\""
SQuote == "'"
BSlash == "\\"

\* the printable ASCII characters in code point order: chr(32) to chr(95)
\* and chr(97) to chr(126)
AsciiLow == <<
    " ", "!", DQuote, "#", "$", "%", "&", SQuote, "(", ")", "*", "+", ",", "-", ".", "/",
    "0", "1", "2", "3", "4", "5", "6", "7", "8", "9", ":", ";", "<", "=", ">", "?",
    "@", "A", "B", "C", "D", "E", "F", "G", "H", "I", "J", "K", "L", "M", "N", "O",
    "P", "Q", "R", "S", "T", "U", "V", "W", "X", "Y", "Z", "[", BSlash, "]", "^", "_" >>
AsciiHigh == <<
    "a", "b", "c", "d", "e", "f", "g", "h", "i", "j", "k", "l", "m", "n", "o",
    "p", "q", "r", "s", "t", "u", "v", "w", "x", "y", "z", "{", "|", "}", "~" >>

\* ord(c) of a printable ASCII character
Ord(c) ==
    IF \E i \in 1..Len(AsciiLow) : AsciiLow[i] = c
    THEN 31 + (CHOOSE i \in 1..Len(AsciiLow) : AsciiLow[i] = c)
    ELSE 96 + (CHOOSE i \in 1..Len(AsciiHigh) : AsciiHigh[i] = c)

DigitChars == <<"0", "1", "2", "3", "4", "5", "6", "7", "8", "9">>
\* c.isdigit()
IsDigit(c) == \E i \in 1..Len(DigitChars) : DigitChars[i] = c

\* a < b on Python strings: code point by code point, a proper prefix first
StrLess(a, b) ==
    \/ /\ Len(a) < Len(b)
       /\ \A i \in 1..Len(a) : a[i] = b[i]
    \/ \E i \in 1..(IF Len(a) < Len(b) THEN Len(a) ELSE Len(b)) :
          /\ \A j \in 1..(i - 1) : a[j] = b[j]
          /\ Ord(a[i]) < Ord(b[i])

RECURSIVE NatDigits(_)
NatDigits(n) ==
    IF n < 10 THEN <<DigitChars[n + 1]>>
    ELSE NatDigits(n \div 10) \o <<DigitChars[(n % 10) + 1]>>
\* str(n) of an int
IntStr(n) == IF n < 0 THEN <<"-">> \o NatDigits(0 - n) ELSE NatDigits(n)

\* ", ".join(parts)
RECURSIVE JoinComma(_)
JoinComma(parts) ==
    IF parts = <<>> THEN <<>>
    ELSE IF Len(parts) = 1 THEN parts[1]
    ELSE parts[1] \o <<",", " ">> \o JoinComma(Tail(parts))

\* repr(x); the strings of the model hold no quote and no backslash, so
\* repr of a str is the string between single quotes
RECURSIVE PyRepr(_)
PyRepr(x) ==
    CASE x.k = "str" -> <<SQuote>> \o x.s \o <<SQuote>>
      [] x.k = "num" -> IntStr(x.n)
      [] x.k = "bool" -> IF x.b THEN <<"T", "r", "u", "e">>
                                ELSE <<"F", "a", "l", "s", "e">>
      [] x.k = "null" -> <<"N", "o", "n", "e">>
      [] x.k = "list" ->
            <<"[">> \o JoinComma([i \in 1..Len(x.elems) |-> PyRepr(x.elems[i])]) \o <<"]">>
      [] x.k = "dict" ->
            <<"{">> \o JoinComma([i \in 1..Len(x.items) |->
                        <<SQuote>> \o x.items[i].key \o <<SQuote, ":", " ">>
                            \o PyRepr(x.items[i].val)])
                   \o <<"}">>

\* str(x): a str is itself, everything else is its repr
PyStr(x) == IF x.k = "str" THEN x.s ELSE PyRepr(x)

\* json.dumps(x) with the default separators; with ensure_ascii=False the
\* ASCII strings of the model are written as they are between double quotes
RECURSIVE JsonDumps(_)
JsonDumps(x) ==
    CASE x.k = "str" -> <<DQuote>> \o x.s \o <<DQuote>>
      [] x.k = "num" -> IntStr(x.n)
      [] x.k = "bool" -> IF x.b THEN <<"t", "r", "u", "e">>
                                ELSE <<"f", "a", "l", "s", "e">>
      [] x.k = "null" -> <<"n", "u", "l", "l">>
      [] x.k = "list" ->
            <<"[">> \o JoinComma([i \in 1..Len(x.elems) |-> JsonDumps(x.elems[i])]) \o <<"]">>
      [] x.k = "dict" ->
            <<"{">> \o JoinComma([i \in 1..Len(x.items) |->
                        <<DQuote>> \o x.items[i].key \o <<DQuote, ":", " ">>
                            \o JsonDumps(x.items[i].val)])
                   \o <<"}">>

-----------------------------------------------------------------------------
(* format_json *)

\* the key of sorted() in format_json
SortKey(x) == IF IsDict(x) THEN JsonDumps(x) ELSE PyStr(x)

\* an unstable sort: the element goes before the elements with an equal key
InsertByKeyUnstable(sorted, x) ==
    LET after == {i \in 1..Len(sorted) : ~StrLess(SortKey(sorted[i]), SortKey(x))}
        p == IF after = {} THEN Len(sorted) + 1
             ELSE CHOOSE i \in after : \A j \in after : i <= j
    IN SubSeq(sorted, 1, p - 1) \o <<x>> \o SubSeq(sorted, p, Len(sorted))

\* sorted() is stable: an element goes before the first element whose key
\* is greater than its own, after every element with an equal key
InsertByKey(sorted, x) ==
    LET after == {i \in 1..Len(sorted) : StrLess(SortKey(x), SortKey(sorted[i]))}
        p == IF after = {} THEN Len(sorted) + 1
             ELSE CHOOSE i \in after : \A j \in after : i <= j
    IN SubSeq(sorted, 1, p - 1) \o <<x>> \o SubSeq(sorted, p, Len(sorted))

RECURSIVE SortedByKey(_)
SortedByKey(items) ==
    IF items = <<>> THEN <<>>
    ELSE InsertByKey(SortedByKey(SubSeq(items, 1, Len(items) - 1)),
                     items[Len(items)])

\* sorted(data.items()): the keys of a dict are pairwise different, so the
\* tuples (key, value) are ordered by their keys alone
InsertItem(sorted, it) ==
    LET after == {i \in 1..Len(sorted) : StrLess(it.key, sorted[i].key)}
        p == IF after = {} THEN Len(sorted) + 1
             ELSE CHOOSE i \in after : \A j \in after : i <= j
    IN SubSeq(sorted, 1, p - 1) \o <<it>> \o SubSeq(sorted, p, Len(sorted))

RECURSIVE SortedItems(_)
SortedItems(items) ==
    IF items = <<>> THEN <<>>
    ELSE InsertItem(SortedItems(SubSeq(items, 1, Len(items) - 1)),
                    items[Len(items)])

\* the special case for coordinates: two strings, a digit in each
IsCoordinates(x) ==
    /\ IsList(x)
    /\ Len(x.elems) = 2
    /\ \A i \in 1..2 :
          /\ IsStr(x.elems[i])
          /\ \E j \in 1..Len(x.elems[i].s) : IsDigit(x.elems[i].s[j])

RECURSIVE format_json(_)
format_json(x) ==
    IF IsList(x) THEN
        IF IsCoordinates(x) THEN x
        ELSE List(SortedByKey([i \in 1..Len(x.elems) |->
                    IF IsDict(x.elems[i]) \/ IsList(x.elems[i])
                    THEN format_json(x.elems[i]) ELSE x.elems[i]]))
    ELSE IF IsDict(x) THEN
        LET items == SortedItems(x.items)
        IN Dict([i \in 1..Len(items) |->
                    Item(items[i].key,
                         IF IsDict(items[i].val) \/ IsList(items[i].val)
                         THEN format_json(items[i].val) ELSE items[i].val)])
    ELSE x

-----------------------------------------------------------------------------
(* extract_centers_by_branch_code *)

DataField == <<"d", "a", "t", "a">>
BranchCodeField == <<"b", "r", "a", "n", "c", "h", "_", "c", "o", "d", "e">>

\* centers_dict, old_centers and new_centers are Python dicts whose keys are
\* the values of the branch_code fields: any hashable value, looked up
\* with ==.  They are the items [key, val] in insertion order.
Centers(items) == [k |-> "centers", entries |-> items]
CentersKeys(c) == {c.entries[i].key : i \in 1..Len(c.entries)}
CentersHas(c, key) == \E i \in 1..Len(c.entries) : PyEq(c.entries[i].key, key)
CentersGet(c, key) == c.entries[CHOOSE i \in 1..Len(c.entries) : PyEq(c.entries[i].key, key)].val
\* c[key] = val: an equal key keeps its place and its first spelling
CentersSet(c, key, val) ==
    IF CentersHas(c, key)
    THEN Centers([i \in 1..Len(c.entries) |->
                    IF PyEq(c.entries[i].key, key) THEN Item(c.entries[i].key, val)
                    ELSE c.entries[i]])
    ELSE Centers(Append(c.entries, Item(key, val)))

\* lists and dicts cannot be keys of a dict
IsHashable(x) == ~(IsList(x) \/ IsDict(x))

\* what "for center in centers" iterates over
IsIterable(x) == x.k \in {"list", "dict", "str"}
IterItems(x) ==
    CASE x.k = "list" -> x.elems
      [] x.k = "dict" -> [i \in 1..Len(x.items) |-> Str(x.items[i].key)]
      [] x.k = "str" -> [i \in 1..Len(x.s) |-> Str(<<x.s[i]>>)]

\* the loop over centers, from the dict built so far
RECURSIVE IndexCenters(_, _)
IndexCenters(acc, items) ==
    IF items = <<>> THEN acc
    ELSE LET center == Head(items) IN
         IF IsDict(center) /\ DictHas(center, BranchCodeField)
         THEN IF IsHashable(DictGet(center, BranchCodeField))
              THEN IndexCenters(CentersSet(acc, DictGet(center, BranchCodeField),
                                           center),
                                Tail(items))
              ELSE Raised("TypeError")
         ELSE IndexCenters(acc, Tail(items))

extract_centers_by_branch_code(doc) ==
    LET centers == IF IsDict(doc) /\ DictHas(doc, DataField)
                   THEN DictGet(doc, DataField)
                   ELSE IF IsList(doc) THEN doc
                   ELSE List(<<>>)
    IN IF IsIterable(centers)
       THEN IndexCenters(Centers(<<>>), IterItems(centers))
       ELSE Raised("TypeError")

-----------------------------------------------------------------------------
(* compare_centers *)

SummaryLimit == 200
\* s[:200]
Truncate(s) == SubSeq(s, 1, IF Len(s) < SummaryLimit THEN Len(s) ELSE SummaryLimit)

FieldRemoved == <<"<", "F", "I", "E", "L", "D", "_", "R", "E", "M", "O", "V", "E", "D", ">">>
FieldAdded == <<"<", "F", "I", "E", "L", "D", "_", "A", "D", "D", "E", "D", ">">>

ChangeRecord(type, branch_code, field, old, new) ==
    [ChangeType |-> type, branch_code |-> branch_code, FieldName |-> field,
     OldValue |-> old, NewValue |-> new]

\* The loops of compare_centers run over Python sets, whose iteration order
\* is not specified: the records are collected in some order and kept as a
\* bag, which is all that the order leaves defined.
RECURSIVE SetToSeq(_)
SetToSeq(S) ==
    IF S = {} THEN <<>>
    ELSE LET x == CHOOSE y \in S : TRUE IN <<x>> \o SetToSeq(S \ {x})

RECURSIVE SeqToBag(_)
SeqToBag(seq) ==
    IF seq = <<>> THEN EmptyBag
    ELSE SetToBag({Head(seq)}) (+) SeqToBag(Tail(seq))

RECURSIVE Flatten(_)
Flatten(seqs) == IF seqs = <<>> THEN <<>> ELSE Head(seqs) \o Flatten(Tail(seqs))

\* the comparison of one nested field of two dict-valued fields
NestedChanges(branch_code, field, old_dict, new_dict, nested_field) ==
    LET old_value == DictGetOr(old_dict, nested_field, Str(<<>>))
        new_value == DictGetOr(new_dict, nested_field, Str(<<>>))
    IN IF ~PyEq(old_value, new_value)
       THEN <<ChangeRecord("Modified", branch_code,
                           field \o <<".">> \o nested_field,
                           PyStr(old_value), PyStr(new_value))>>
       ELSE <<>>

\* the body of "for field in all_fields"
FieldChanges(branch_code, old_center, new_center, field) ==
    IF DictHas(old_center, field) /\ DictHas(new_center, field) THEN
        LET old_value == DictGet(old_center, field)
            new_value == DictGet(new_center, field)
        IN IF IsDict(old_value) /\ IsDict(new_value) THEN
               LET nested_fields ==
                       SetToSeq(DictKeys(old_value) \cup DictKeys(new_value))
               IN Flatten([i \in 1..Len(nested_fields) |->
                      NestedChanges(branch_code, field, old_value, new_value,
                                    nested_fields[i])])
           ELSE IF ~PyEq(old_value, new_value)
                THEN <<ChangeRecord("Modified", branch_code, field,
                                    PyStr(old_value), PyStr(new_value))>>
                ELSE <<>>
    ELSE IF DictHas(old_center, field) THEN
        <<ChangeRecord("Modified", branch_code, field,
                       PyStr(DictGet(old_center, field)), FieldRemoved)>>
    ELSE
        <<ChangeRecord("Modified", branch_code, field,
                       FieldAdded, PyStr(DictGet(new_center, field)))>>

\* the body of "for branch_code in common_branch_codes"
CenterChanges(branch_code, old_center, new_center) ==
    IF ~PyEq(old_center, new_center) THEN
        LET all_fields == SetToSeq(DictKeys(old_center) \cup DictKeys(new_center))
        IN Flatten([i \in 1..Len(all_fields) |->
               FieldChanges(branch_code, old_center, new_center, all_fields[i])])
    ELSE <<>>

\* the difference forgotten: every key of the new set counts as added
added_branch_codes_all(old, new) == CentersKeys(new)
\* the old set subtracted from itself: no key counts as deleted
deleted_branch_codes_self(old, new) ==
    {key \in CentersKeys(old) : ~CentersHas(old, key)}

added_branch_codes(old, new) == {key \in CentersKeys(new) : ~CentersHas(old, key)}
deleted_branch_codes(old, new) == {key \in CentersKeys(old) : ~CentersHas(new, key)}
\* set.intersection takes its elements from the smaller of the two sets,
\* from the argument when they have the same size
common_branch_codes(old, new) ==
    IF Len(old.entries) < Len(new.entries)
    THEN {key \in CentersKeys(old) : CentersHas(new, key)}
    ELSE {key \in CentersKeys(new) : CentersHas(old, key)}

compare_centers(old, new) ==
    LET added == SetToSeq(added_branch_codes(old, new))
        deleted == SetToSeq(deleted_branch_codes(old, new))
        common == SetToSeq(common_branch_codes(old, new))
    IN SeqToBag(
         [i \in 1..Len(added) |->
            ChangeRecord("Added", added[i], <<>>, <<>>,
                         Truncate(JsonDumps(CentersGet(new, added[i]))))]
         \o
         [i \in 1..Len(deleted) |->
            ChangeRecord("Deleted", deleted[i], <<>>,
                         Truncate(JsonDumps(CentersGet(old, deleted[i]))), <<>>)]
         \o
         Flatten([i \in 1..Len(common) |->
            CenterChanges(common[i], CentersGet(old, common[i]),
                          CentersGet(new, common[i]))]))

-----------------------------------------------------------------------------
(* Values of the variables of a component that a specification leaves out *)

Unused == [k |-> "unused"]

CanonIdle ==
    /\ data = Unused /\ formatted = Unused /\ reformatted = Unused
    /\ permuted = Unused /\ formatted_permuted = Unused
IndexIdle == json_data = Unused /\ centers_dict = Unused
DiffIdle ==
    old_centers = Unused /\ new_centers = Unused /\ comparison_results = Unused
MainIdle ==
    /\ old_file = Unused /\ new_file = Unused /\ backup_dir = FALSE
    /\ old_backup = Unused /\ formatted_source_file = Unused
    /\ comparison_file = Unused /\ output_file = Unused /\ error_file = Unused
    /\ clock = 0 /\ exit_status = 0 /\ last_run = Unused

canon_vars == << data, formatted, reformatted, permuted, formatted_permuted >>
index_vars == << json_data, centers_dict >>
diff_vars == << old_centers, new_centers, comparison_results >>
main_vars == << old_file, new_file, backup_dir, old_backup, formatted_source_file,
                comparison_file, output_file, error_file, clock, exit_status,
                last_run >>

\* the sequences over S of length at most n
SeqsUpTo(S, n) == UNION {[1..m -> S] : m \in 0..n}

-----------------------------------------------------------------------------
(* The canonicalizer on its own: format_json applied to a document, to its  *)
(* own output, and to the document with its elements in another order       *)

MaxLen == 3

Chars1 == <<"1">>
Chars2 == <<"2">>
CharsA == <<"a">>
CharsB == <<"b">>

CanonScalars == {Num(1), Str(Chars1), Str(Chars2), Str(CharsA), Bool(TRUE), Null}
CanonNested ==
    { List(<<Str(Chars2), Str(Chars1)>>),
      List(<<Str(CharsA), Num(1)>>),
      Dict(<<Item(CharsB, Num(1)),
             Item(CharsA, List(<<Str(CharsB), Str(CharsA)>>))>>) }
CanonElems == CanonScalars \cup CanonNested
CanonLists == {List(items) : items \in SeqsUpTo(CanonElems, MaxLen)}
CanonDocs ==
    CanonLists
    \cup CanonScalars
    \cup {Dict(<<Item(CharsB, l), Item(CharsA, Bool(TRUE))>>) :
            l \in {List(items) : items \in SeqsUpTo(CanonElems, 2)}}

InitCanon ==
    /\ data \in CanonDocs
    /\ formatted = NotRun
    /\ reformatted = NotRun
    /\ permuted = NotRun
    /\ formatted_permuted = NotRun
    /\ IndexIdle /\ DiffIdle /\ MainIdle

\* formatted = format_json(data)
FormatJson ==
    /\ formatted = NotRun
    /\ formatted' = format_json(data)
    /\ UNCHANGED << data, reformatted, permuted, formatted_permuted >>
    /\ UNCHANGED << index_vars, diff_vars, main_vars >>

\* reformatted = format_json(formatted)
Reformat ==
    /\ formatted # NotRun
    /\ reformatted = NotRun
    /\ reformatted' = format_json(formatted)
    /\ UNCHANGED << data, formatted, permuted, formatted_permuted >>
    /\ UNCHANGED << index_vars, diff_vars, main_vars >>

\* the caller hands over the same elements in another order
Permute ==
    /\ reformatted # NotRun
    /\ permuted = NotRun
    /\ IsList(data)
    /\ \E p \in Permutations(1..Len(data.elems)) :
          permuted' = List([i \in 1..Len(data.elems) |-> data.elems[p[i]]])
    /\ UNCHANGED << data, formatted, reformatted, formatted_permuted >>
    /\ UNCHANGED << index_vars, diff_vars, main_vars >>

\* formatted_permuted = format_json(permuted)
FormatPermuted ==
    /\ permuted # NotRun
    /\ formatted_permuted = NotRun
    /\ formatted_permuted' = format_json(permuted)
    /\ UNCHANGED << data, formatted, reformatted, permuted >>
    /\ UNCHANGED << index_vars, diff_vars, main_vars >>

NextCanon == FormatJson \/ Reformat \/ Permute \/ FormatPermuted
SpecCanon == InitCanon /\ [][NextCanon]_vars

\* C7: a sequence that is not a coordinate pair has the same canonical form
\* in every order of its elements, also when the elements are of mixed types.
C7_ArrayOrderIndependence ==
    (formatted_permuted # NotRun /\ ~IsCoordinates(data))
        => PyEq(formatted_permuted, formatted)

\* C8: canonicalizing a canonical document changes nothing:
\* format_json(format_json(d)) == format_json(d).
C8_Idempotence ==
    reformatted # NotRun => PyEq(reformatted, formatted)

\* a document with a nested coordinate pair and elements of mixed types that
\* format_json had to reorder, canonicalized twice
C8_Witness ==
    /\ reformatted # NotRun
    /\ IsList(data)
    /\ ~PyEq(formatted, data)
    /\ \E i \in 1..Len(data.elems) : IsCoordinates(data.elems[i])
    /\ \E i, j \in 1..Len(data.elems) : data.elems[i].k = "num" /\ data.elems[j].k = "str"

-----------------------------------------------------------------------------
(* The indexer on its own *)

MaxRecords == 2

NameField == <<"n", "a", "m", "e">>
AddressField == <<"a", "d", "d", "r", "e", "s", "s">>
CityField == <<"c", "i", "t", "y">>
CoordsField == <<"c", "o", "o", "r", "d", "s">>
TagsField == <<"t", "a", "g", "s">>

\* the branch codes "X1", "X2", ...
KeyName(i) == Str(<<"X", DigitChars[i + 1]>>)

\* elements of a record sequence: records with a string key (one key twice),
\* a numeric key, a list as key, no key, and an element that is no object
IndexElems ==
    { Dict(<<Item(BranchCodeField, KeyName(1)), Item(NameField, Str(CharsA))>>),
      Dict(<<Item(BranchCodeField, KeyName(1)), Item(NameField, Str(CharsB))>>),
      Dict(<<Item(BranchCodeField, KeyName(2))>>),
      Dict(<<Item(BranchCodeField, Num(7))>>),
      Dict(<<Item(BranchCodeField, List(<<KeyName(1)>>))>>),
      Dict(<<Item(NameField, Str(CharsA))>>),
      KeyName(1) }
IndexSeqs == {List(items) : items \in SeqsUpTo(IndexElems, MaxRecords)}
IndexDocs ==
    IndexSeqs
    \cup {Dict(<<Item(DataField, l)>>) : l \in IndexSeqs}
    \cup {Dict(<<Item(DataField, x)>>) :
            x \in {Null, Num(1), Bool(TRUE), Str(CharsA \o CharsB),
                   Dict(<<Item(BranchCodeField, KeyName(1))>>)}}
    \cup {Null, Num(1), Str(CharsA), Dict(<<>>),
          Dict(<<Item(BranchCodeField, KeyName(1))>>)}

InitIndex ==
    /\ json_data \in IndexDocs
    /\ centers_dict = NotRun
    /\ CanonIdle /\ DiffIdle /\ MainIdle

\* centers_dict = extract_centers_by_branch_code(json_data)
Extract ==
    /\ centers_dict = NotRun
    /\ centers_dict' = extract_centers_by_branch_code(json_data)
    /\ UNCHANGED json_data
    /\ UNCHANGED << canon_vars, diff_vars, main_vars >>

NextIndex == Extract
SpecIndex == InitIndex /\ [][NextIndex]_vars

\* C9: the indexer returns a RecordSet for every document and never ends in
\* an error, also when "data" is no sequence or a key is no string.
C9_IndexerTotal ==
    centers_dict # NotRun => centers_dict.k = "centers"

-----------------------------------------------------------------------------
(* The differ on its own *)

NumKeys == 2

Opt(field, values) == {<<>>} \cup {<<Item(field, x)>> : x \in values}

\* the records of the first key: a scalar field, a nested object and an
\* array, each absent or present with one of a few values
RichRecords(key) ==
    { Dict(<<Item(BranchCodeField, key)>> \o name \o address \o coords) :
        name \in Opt(NameField, {Str(CharsA), Num(1), Bool(TRUE)}),
        address \in Opt(AddressField,
                        { Dict(<<>>),
                          Dict(<<Item(CityField, Str(<<>>))>>),
                          Dict(<<Item(CityField, Str(CharsA))>>) }),
        coords \in Opt(CoordsField,
                       { List(<<Str(Chars1), Str(Chars2)>>),
                         List(<<Str(Chars2), Str(Chars1)>>) }) }
\* the records of the other keys
PlainRecords(key) ==
    { Dict(<<Item(BranchCodeField, key)>> \o name) :
        name \in Opt(NameField, {Str(CharsA)}) }
RecordsOf(i) == IF i = 1 THEN RichRecords(KeyName(i)) ELSE PlainRecords(KeyName(i))

\* the RecordSets over the first n keys, each key absent or with a record
RECURSIVE RecordSetItems(_)
RecordSetItems(n) ==
    IF n = 0 THEN {<<>>}
    ELSE {items \o entry :
            items \in RecordSetItems(n - 1),
            entry \in {<<>>} \cup {<<Item(KeyName(n), r)>> : r \in RecordsOf(n)}}
RecordSets == {Centers(items) : items \in RecordSetItems(NumKeys)}

Results(bag) == [k |-> "results", bag |-> bag]

InitDiff ==
    /\ old_centers \in RecordSets
    /\ new_centers \in RecordSets
    /\ comparison_results = NotRun
    /\ CanonIdle /\ IndexIdle /\ MainIdle

\* comparison_results = compare_centers(old_centers, new_centers)
Compare ==
    /\ comparison_results = NotRun
    /\ comparison_results' = Results(compare_centers(old_centers, new_centers))
    /\ UNCHANGED << old_centers, new_centers >>
    /\ UNCHANGED << canon_vars, index_vars, main_vars >>

NextDiff == Compare
SpecDiff == InitDiff /\ [][NextDiff]_vars

\* the number of records of a bag that are of a type and for a key
CountOf(bag, type, key) ==
    LET S == {r \in BagToSet(bag) : r.ChangeType = type /\ r.branch_code = key}
    IN BagCardinality([r \in S |-> bag[r]])

\* equality of JSON values: the same type and the same content
RECURSIVE JsonEq(_, _)
JsonEq(a, b) ==
    /\ a.k = b.k
    /\ CASE a.k = "list" ->
              /\ Len(a.elems) = Len(b.elems)
              /\ \A i \in 1..Len(a.elems) : JsonEq(a.elems[i], b.elems[i])
         [] a.k = "dict" ->
              /\ DictKeys(a) = DictKeys(b)
              /\ \A key \in DictKeys(a) : JsonEq(DictGet(a, key), DictGet(b, key))
         [] OTHER -> a = b

\* the top-level fields in which two records differ
DifferingFields(o, n) ==
    {f \in DictKeys(o) \cup DictKeys(n) :
        ~(DictHas(o, f) /\ DictHas(n, f) /\ JsonEq(DictGet(o, f), DictGet(n, f)))}

IsScalar(x) == x.k \in {"str", "num", "bool", "null"}

Compared == comparison_results # NotRun
CommonKeys == {key \in CentersKeys(old_centers) : CentersHas(new_centers, key)}

\* C4: the type of every ChangeRecord matches the membership of its key:
\* Added for a key of the new set only, Deleted for a key of the old set
\* only, Modified for a key of both sets whose records differ.
C4_KeyClassification ==
    Compared =>
        \A r \in BagToSet(comparison_results.bag) :
            /\ r.ChangeType \in {"Added", "Deleted", "Modified"}
            /\ r.ChangeType = "Added" =>
                  /\ CentersHas(new_centers, r.branch_code)
                  /\ ~CentersHas(old_centers, r.branch_code)
            /\ r.ChangeType = "Deleted" =>
                  /\ CentersHas(old_centers, r.branch_code)
                  /\ ~CentersHas(new_centers, r.branch_code)
            /\ r.ChangeType = "Modified" =>
                  /\ CentersHas(old_centers, r.branch_code)
                  /\ CentersHas(new_centers, r.branch_code)
                  /\ ~PyEq(CentersGet(old_centers, r.branch_code),
                           CentersGet(new_centers, r.branch_code))

\* a comparison with a key whose record changed, next to a key that is new
\* and next to a key whose record is the same on both sides
C4_Witness ==
    /\ Compared
    /\ \E a, m \in BagToSet(comparison_results.bag) :
          /\ a.ChangeType = "Added"
          /\ m.ChangeType = "Modified"
          /\ a.branch_code # m.branch_code

\* C5: a key of the new set only has exactly one Added record and no other
\* record; a key of the old set only has exactly one Deleted record and no
\* other record.
C5_DiffCompleteness ==
    Compared =>
        /\ \A key \in CentersKeys(new_centers) :
              ~CentersHas(old_centers, key) =>
                  /\ CountOf(comparison_results.bag, "Added", key) = 1
                  /\ CountOf(comparison_results.bag, "Modified", key) = 0
                  /\ CountOf(comparison_results.bag, "Deleted", key) = 0
        /\ \A key \in CentersKeys(old_centers) :
              ~CentersHas(new_centers, key) =>
                  /\ CountOf(comparison_results.bag, "Deleted", key) = 1
                  /\ CountOf(comparison_results.bag, "Modified", key) = 0
                  /\ CountOf(comparison_results.bag, "Added", key) = 0

\* a comparison of two sets where one key is new and another key is gone
C5_Witness ==
    /\ Compared
    /\ \E key \in CentersKeys(new_centers) : ~CentersHas(old_centers, key)
    /\ \E key \in CentersKeys(old_centers) : ~CentersHas(new_centers, key)

\* C6: a common key whose records differ in exactly one top-level scalar
\* field, present on both sides, has exactly one Modified record, for that
\* field, with the display strings of the two values.
C6_FieldCoverage ==
    Compared =>
        \A key \in CommonKeys :
            LET o == CentersGet(old_centers, key)
                n == CentersGet(new_centers, key)
            IN \A f \in DictKeys(o) \cap DictKeys(n) :
                  (/\ DifferingFields(o, n) = {f}
                   /\ IsScalar(DictGet(o, f))
                   /\ IsScalar(DictGet(n, f)))
                  => /\ CountOf(comparison_results.bag, "Modified", key) = 1
                     /\ \E r \in BagToSet(comparison_results.bag) :
                           /\ r.ChangeType = "Modified"
                           /\ r.branch_code = key
                           /\ r.FieldName = f
                           /\ r.OldValue = PyStr(DictGet(o, f))
                           /\ r.NewValue = PyStr(DictGet(n, f))

\* C10: a common key whose records are not equal has at least one Modified
\* record, also when the records differ only in a nested field that is
\* absent on one side and the empty string on the other.
C10_NoSilentDifference ==
    Compared =>
        \A key \in CommonKeys :
            ~PyEq(CentersGet(old_centers, key), CentersGet(new_centers, key))
                => CountOf(comparison_results.bag, "Modified", key) >= 1

-----------------------------------------------------------------------------
(* main(): one run of the script over the files                             *)
(*                                                                          *)
(* A JSON file is modelled by the document that json.load reads from it:    *)
(* json.dump writes the values of the model (strings, integers, booleans,   *)
(* null, lists, objects with string keys) so that json.load reads them      *)
(* back unchanged, in the same order.  The paths of --old, --new, --output  *)
(* and of the files in the backup directory are different paths.  The       *)
(* files whose names carry the timestamp are functions of the timestamp.    *)

MaxClock == 1

Missing == [k |-> "missing"]
\* a file whose text json.load rejects
Invalid == [k |-> "invalid"]

Timestamps == 0..MaxClock

\* the check that the new file exists
NewFileFound(new) == new # Missing

\* the read of the old file: a missing file and a file that is not JSON
\* give empty data; a file that was read is copied to the backup
ReadOld(old) ==
    IF old = Missing THEN [old_data |-> Dict(<<>>), copied |-> FALSE]
    ELSE IF old = Invalid THEN [old_data |-> Dict(<<>>), copied |-> FALSE]
    ELSE [old_data |-> old, copied |-> TRUE]

\* the new file treated as the old file is: text that is not JSON gives
\* empty data
LoadNewLenient(new) == IF new = Invalid THEN Dict(<<>>) ELSE new

\* the read of the new file
LoadNew(new) == IF new = Invalid THEN Raised("JSONDecodeError") ELSE new

\* the rows that csv.DictWriter writes under the header
Csv(results) == [k |-> "csv", rows |-> results]

\* --no-update ignored
TargetAfterAlways(no_update, old, formatted_source_data) == formatted_source_data

\* the content of the target file after the step "copy the formatted source
\* data to the target file (unless --no-update is specified)"
TargetAfter(no_update, old, formatted_source_data) ==
    IF ~no_update THEN formatted_source_data ELSE old

\* the summary printed at the end of a run
Summary(results) ==
    LET BranchesOf(type) ==
            {r.branch_code : r \in {x \in BagToSet(results) : x.ChangeType = type}}
        modified == {r \in BagToSet(results) : r.ChangeType = "Modified"}
    IN [k |-> "summary",
        added_branches |-> Cardinality(BranchesOf("Added")),
        deleted_branches |-> Cardinality(BranchesOf("Deleted")),
        modified_branches |-> Cardinality(BranchesOf("Modified")),
        modified |-> BagCardinality([r \in modified |-> results[r]])]

\* the log that the handler of the exception writes
ErrorLog(exception) == [k |-> "log", exc |-> exception.exc]

\* sys.exit(1)
FailureStatus == 1

\* The outcome of the try block of main() for the contents old and new of the
\* two files: the exception that ended it (or NotRun), and what was written
\* before it ended.
TryBlock(no_update, old, new) ==
    IF ~NewFileFound(new) THEN
        [raised |-> Raised("FileNotFoundError"), copied |-> FALSE,
         formatted_source_data |-> NotRun, results |-> NotRun, target |-> old]
    ELSE LET read == ReadOld(old)
             new_data == LoadNew(new)
         IN IF new_data.k = "raise" THEN
                [raised |-> new_data, copied |-> read.copied,
                 formatted_source_data |-> NotRun, results |-> NotRun,
                 target |-> old]
            ELSE LET formatted_source_data == format_json(new_data)
                     olds == extract_centers_by_branch_code(read.old_data)
                     news == extract_centers_by_branch_code(new_data)
                 IN IF olds.k = "raise" \/ news.k = "raise" THEN
                        [raised |-> IF olds.k = "raise" THEN olds ELSE news,
                         copied |-> read.copied,
                         formatted_source_data |-> formatted_source_data,
                         results |-> NotRun, target |-> old]
                    ELSE
                        [raised |-> NotRun, copied |-> read.copied,
                         formatted_source_data |-> formatted_source_data,
                         results |-> Results(compare_centers(olds, news)),
                         target |-> TargetAfter(no_update, old,
                                                formatted_source_data)]

\* the record of the last run: its arguments, its timestamp, and what it
\* computed and printed
RunRecord(no_update, use_output, after_update, out) ==
    [k |-> "run", no_update |-> no_update, use_output |-> use_output,
     timestamp |-> clock,
     after_update |-> after_update,
     raised |-> out.raised,
     results |-> out.results,
     summary |-> IF out.raised = NotRun THEN Summary(out.results.bag) ELSE NotRun]

\* the last run was a run with update enabled that completed
UpdatedLast ==
    /\ last_run # NotRun
    /\ exit_status = 0
    /\ ~last_run.no_update

main(no_update, use_output) ==
    \E out \in {TryBlock(no_update, old_file, new_file)} :
    LET ok == out.raised = NotRun
    IN /\ backup_dir' = TRUE
       /\ old_backup' = IF out.copied THEN old_file ELSE old_backup
       /\ formatted_source_file' =
              IF out.formatted_source_data # NotRun
              THEN [formatted_source_file EXCEPT ![clock] = out.formatted_source_data]
              ELSE formatted_source_file
       /\ comparison_file' =
              IF ok /\ ~use_output
              THEN [comparison_file EXCEPT ![clock] = Csv(out.results.bag)]
              ELSE comparison_file
       /\ output_file' =
              IF ok /\ use_output THEN Csv(out.results.bag) ELSE output_file
       /\ old_file' = out.target
       /\ error_file' =
              IF ok THEN error_file
              ELSE [error_file EXCEPT ![clock] = ErrorLog(out.raised)]
       /\ exit_status' = IF ok THEN 0 ELSE FailureStatus
       /\ last_run' = RunRecord(no_update, use_output, UpdatedLast, out)
       /\ UNCHANGED << new_file, clock >>
       /\ UNCHANGED << canon_vars, index_vars, diff_vars >>

\* the script is started with some arguments
Run == \E no_update \in BOOLEAN, use_output \in BOOLEAN : main(no_update, use_output)

\* a second passes between two runs
Tick ==
    /\ clock < MaxClock
    /\ clock' = clock + 1
    /\ UNCHANGED << old_file, new_file, backup_dir, old_backup,
                    formatted_source_file, comparison_file, output_file,
                    error_file, exit_status, last_run >>
    /\ UNCHANGED << canon_vars, index_vars, diff_vars >>

\* the records of the data files: one with a list field that format_json
\* reorders, and a second branch
MainRecords ==
    { Dict(<<Item(BranchCodeField, KeyName(1)),
             Item(TagsField, List(<<Str(CharsB), Str(CharsA)>>))>>),
      Dict(<<Item(BranchCodeField, KeyName(2)), Item(NameField, Str(CharsA))>>) }
MainDocs ==
    {Dict(<<Item(DataField, List(items))>>) :
        items \in SeqsUpTo(MainRecords, MaxRecords)}
    \cup {List(items) : items \in SeqsUpTo(MainRecords, 1)}
    \cup {Dict(<<Item(DataField, Null)>>), Dict(<<>>)}
FileContents == {Missing, Invalid} \cup MainDocs

Init ==
    /\ old_file \in FileContents
    /\ new_file \in FileContents
    /\ backup_dir = FALSE
    /\ old_backup = Missing
    /\ formatted_source_file = [t \in Timestamps |-> Missing]
    /\ comparison_file = [t \in Timestamps |-> Missing]
    /\ output_file = Missing
    /\ error_file = [t \in Timestamps |-> Missing]
    /\ clock = 0
    /\ exit_status = 0
    /\ last_run = NotRun
    /\ CanonIdle /\ IndexIdle /\ DiffIdle

Next == Run \/ Tick
Spec == Init /\ [][Next]_vars

Ran == last_run # NotRun
Completed == Ran /\ last_run.raised = NotRun
\* a step of a run: a tick is the only other step, and it moves the clock
RunStep == clock' = clock
\* the file a completed run wrote its CSV report to
ReportOf(run) ==
    IF run.use_output THEN output_file ELSE comparison_file[run.timestamp]

\* C1: once a run with update enabled has replaced the snapshot with the
\* canonicalized new document, a second run against the same new-data file
\* emits an empty change list.
C1_SnapshotStability ==
    (Completed /\ last_run.after_update) => last_run.results.bag = EmptyBag

\* C2: when the new-data file is missing or fails to parse, the run ends with
\* a non-zero status and the old snapshot, the backup copy of the snapshot,
\* the formatted copy and the CSV report are as they were before the run.
C2_FatalErrorAtomicity ==
    [][ (RunStep /\ new_file \in {Missing, Invalid}) =>
            /\ exit_status' # 0
            /\ old_file' = old_file
            /\ old_backup' = old_backup
            /\ formatted_source_file' = formatted_source_file
            /\ comparison_file' = comparison_file
            /\ output_file' = output_file ]_vars

\* C2 as amended: when the new-data file is missing or fails to parse, the
\* run ends with a non-zero status and the old snapshot, the formatted copy
\* and the CSV report are as they were before the run; the backup copy of
\* the snapshot is as it was before the run when the new-data file is
\* missing or the old snapshot is missing or is not JSON, and otherwise (the
\* new-data file fails to parse, the old snapshot is JSON) it is a copy of
\* the old snapshot.
C2_FatalErrorAtomicityAmended ==
    [][ (RunStep /\ new_file \in {Missing, Invalid}) =>
            /\ exit_status' # 0
            /\ old_file' = old_file
            /\ formatted_source_file' = formatted_source_file
            /\ comparison_file' = comparison_file
            /\ output_file' = output_file
            /\ old_backup' = IF new_file = Invalid /\ old_file \notin {Missing, Invalid}
                             THEN old_file ELSE old_backup ]_vars

\* a run that failed to parse the new-data file after it had read the old
\* snapshot: the snapshot has been copied to the backup, the error is logged
C2_Witness ==
    /\ Ran
    /\ last_run.raised = Raised("JSONDecodeError")
    /\ exit_status = FailureStatus
    /\ old_file \notin {Missing, Invalid}
    /\ old_backup = old_file
    /\ error_file[last_run.timestamp] = ErrorLog(Raised("JSONDecodeError"))

\* C3: a run with --no-update leaves the old snapshot as it was, and when it
\* completes its CSV report holds a row for every ChangeRecord of the
\* comparison of the two files and the summary is printed; after a run with
\* update enabled that completes, the snapshot is the canonicalized new
\* document.
C3_UpdateSuppression ==
    /\ [][ (RunStep /\ last_run'.no_update) =>
              /\ old_file' = old_file
              /\ last_run'.raised = NotRun =>
                    /\ (IF last_run'.use_output THEN output_file'
                        ELSE comparison_file'[last_run'.timestamp]) =
                           Csv(compare_centers(
                                 extract_centers_by_branch_code(ReadOld(old_file).old_data),
                                 extract_centers_by_branch_code(new_file)))
                    /\ last_run'.summary # NotRun ]_vars
    /\ [](Completed =>
              /\ ReportOf(last_run) = Csv(last_run.results.bag)
              /\ last_run.summary = Summary(last_run.results.bag))
    /\ []((Completed /\ ~last_run.no_update) => old_file = format_json(new_file))

\* a completed run with --no-update over an old snapshot that differs from
\* the canonicalized new document: the report has rows, the snapshot stays
C3_Witness ==
    /\ Completed
    /\ last_run.no_update
    /\ old_file \notin {Missing, Invalid}
    /\ old_file # format_json(new_file)
    /\ last_run.results.bag # EmptyBag
    /\ ReportOf(last_run) = Csv(last_run.results.bag)

=============================================================================
